---- MODULE Spec2Model ----
(***************************************************************************)
(* Model of library/ec2_transit_gateway_route_table.py: one Ansible module *)
(* invocation (state=present or state=absent) reconciling a transit        *)
(* gateway route table against the remote EC2 control plane, followed by   *)
(* further invocations with the same parameters.                           *)
(*                                                                         *)
(* The remote control plane is the state of the system: the route tables,  *)
(* their gateway, tags, associations and active routes.  Every mutating    *)
(* SDK call is a step of its own; the reads of a function belong to the    *)
(* step that uses their answer.  Every SDK call may raise (ClientError /   *)
(* BotoCoreError) instead of answering.  Mutations are visible at once     *)
(* (the sleeps of the source are not modelled) and nobody else writes to   *)
(* the remote.                                                             *)
(***************************************************************************)
EXTENDS Integers, Sequences, FiniteSets, TLC

\* ------------------------------------------------------------------ bounds
\* Route tables that exist before the first invocation: ids 1..MaxTables.
MaxTables == 2
\* Longest desired `routes` list.
MaxRoutes == 2
\* Longest desired `associations` list.
MaxAssociations == 2
\* Consecutive invocations with the same parameters.
MaxInvocations == 2

\* ----------------------------------------------------------------- domains
Gateways == {"tgw-1", "tgw-2"}
Attachments == {"tgw-attach-A", "tgw-attach-B"}
CIDRs == {"10.1.0.0/16", "10.2.0.0/16", "10.3.0.0/16"}
TagKeys == {"Name", "Env"}
TagValues == {"a", "b"}
\* Every id a route table can have: the initial ones and one per invocation.
AllIds == 1..(MaxTables + MaxInvocations)

\* Python's None for an optional value: the empty sequence; a given value x
\* is <<x>>.
None == <<>>
Some(x) == <<x>>
\* route_table = None (no table found / created yet)
NoTable == 0
\* marks a key that a Python dict does not hold
Absent == "<absent>"

\* A tag dict (Ansible form): key -> value, Absent where the key is missing.
TagDicts == [TagKeys -> TagValues \cup {Absent}]
EmptyDict == [k \in TagKeys |-> Absent]
Keys(d) == {k \in TagKeys : d[k] # Absent}

\* A boto3 tag list: records {Key, Value}; the remote keeps keys unique.
TagRecords == [Key : TagKeys, Value : TagValues]
TagLists == {tl \in SUBSET TagRecords :
               \A t1, t2 \in tl : t1.Key = t2.Key => t1 = t2}

\* The remote's route records: one active route per destination CIDR.
RouteRecords == [DestinationCidrBlock : CIDRs, TransitGatewayAttachmentId : Attachments]
RouteSets == {rs \in SUBSET RouteRecords :
                \A r1, r2 \in rs :
                   r1.DestinationCidrBlock = r2.DestinationCidrBlock => r1 = r2}

\* A desired route of the `routes` parameter.
RouteSpecs == [dest_cidr : CIDRs, tgw_attachment_id : Attachments]

Range(s) == {s[i] : i \in 1..Len(s)}
SeqsUpTo(S, n) == UNION {[1..k -> S] : k \in 0..n}
\* The orders in which the remote may list the elements of a set.
Perms(S) == {s \in [1..Cardinality(S) -> S] : \A x \in S : \E i \in 1..Cardinality(S) : s[i] = x}

\* --------------------------------------------------------- pure functions
boto3_tag_list_to_ansible_dict(tl) ==
    [k \in TagKeys |-> IF \E t \in tl : t.Key = k
                        THEN (CHOOSE t \in tl : t.Key = k).Value
                        ELSE Absent]

ansible_dict_to_boto3_tag_list(d) ==
    {[Key |-> k, Value |-> d[k]] : k \in Keys(d)}

\* compare_aws_tags(current, new, purge): <<tags to set, keys to unset>>
compare_aws_tags(cur, new, purge) ==
    LET unset == {k \in Keys(cur) : k \notin Keys(new) /\ purge}
        toset == [k \in TagKeys |->
                    IF k \in Keys(new) /\ new[k] # cur[k] THEN new[k] ELSE Absent]
    IN  <<toset, unset>>

tags_match_KeysOnly(match_tags, candidate_tags) ==
    \A k \in Keys(match_tags) : k \in Keys(candidate_tags)

\* all(k in candidate_tags and candidate_tags[k] == v for k, v in match_tags.items())
tags_match(match_tags, candidate_tags) ==
    \A k \in Keys(match_tags) :
        k \in Keys(candidate_tags) /\ candidate_tags[k] = match_tags[k]

\* dict.update: d1 with every entry of d2 written over it
DictUpdate(d1, d2) == [k \in TagKeys |-> IF d2[k] # Absent THEN d2[k] ELSE d1[k]]

\* ------------------------------------------------------------------ state
VARIABLES
    \* the remote control plane
    tables,                \* ids of the route tables that exist
    tgwOf,                 \* id -> TransitGatewayId of the table
    rtags,                 \* id -> the table's tags, a boto3 tag list
    rassoc,                \* id -> attachment ids associated with the table
    rmain,                 \* id -> the associations flagged `main` (RETURN, associations.main)
    rroutes,               \* id -> the table's active routes
    nextId,                \* id the next created table gets
    \* the invocation
    params,                \* module.params and module.check_mode
    pc,                    \* position in ensure_route_table_present/_absent
    outcome,               \* "running", "done" (exit_json), "failed" (fail_json), "crashed"
    result,                \* what exit_json / fail_json reported
    route_table,           \* the table found or created (its id), NoTable for None
    changed,               \* ensure_route_table_present's `changed`
    fn_changed,            \* `changed` of ensure_associations / ensure_routes
    cur_tags,              \* ensure_tags' cur_tags
    tag_result,            \* what ensure_tags returned
    existing_attachments,  \* ensure_associations' existing_attachments
    route_list,            \* ensure_routes' route_list (existing_cidrs in order)
    idx,                   \* position of the current for-loop
    \* history of the run
    calls,                 \* mutating SDK calls this invocation issued, in order
    failed_call,           \* the SDK call that raised, None if none did
    looked_up,             \* whether the lookup step queried the remote
    pre,                   \* the remote as it was when this invocation began
    history,               \* results of the earlier invocations
    inv                    \* number of this invocation

remote == <<tables, tgwOf, rtags, rassoc, rmain, rroutes, nextId>>
locals == <<route_table, changed, fn_changed, cur_tags, tag_result,
            existing_attachments, route_list, idx>>
control == <<pc, outcome, result>>
ghost == <<calls, failed_call, looked_up>>
run == <<params, pre, history, inv>>
vars == <<remote, locals, control, ghost, run>>

\* What an invocation can observe of the remote.
Snapshot == [tables |-> tables, tgwOf |-> tgwOf, rtags |-> rtags,
             rassoc |-> rassoc, rroutes |-> rroutes]

NoResult == [changed |-> FALSE, route_table |-> None, msg |-> ""]

\* ---------------------------------------------------------- initial states
\* argument_spec of main(): the parameters of one invocation
Params(state, lookup, rtid, tags, purge, assocs, routes, check) ==
    [state |-> state, lookup |-> lookup, route_table_id |-> rtid,
     tags |-> tags, purge_tags |-> purge, tgw_id |-> "tgw-1",
     associations |-> assocs, routes |-> routes, check_mode |-> check]

\* The remote holds the tables 1..n; a table that does not exist has nothing.
InitRemote(n, gw, tg, as, mn, rt) ==
    /\ tables = 1..n
    /\ tgwOf = [t \in AllIds |-> IF t \in 1..n THEN gw[t] ELSE "none"]
    /\ rtags = [t \in AllIds |-> IF t \in 1..n THEN tg[t] ELSE {}]
    /\ rassoc = [t \in AllIds |-> IF t \in 1..n THEN as ELSE {}]
    /\ rmain = [t \in AllIds |-> IF t \in 1..n THEN mn ELSE {}]
    /\ rroutes = [t \in AllIds |-> IF t \in 1..n THEN rt ELSE {}]
    /\ nextId = MaxTables + 1

InitInvocation ==
    /\ pc = "lookup"
    /\ outcome = "running"
    /\ result = NoResult
    /\ route_table = NoTable
    /\ changed = FALSE
    /\ fn_changed = FALSE
    /\ cur_tags = EmptyDict
    /\ tag_result = [changed |-> FALSE, tags |-> None]
    /\ existing_attachments = <<>>
    /\ route_list = <<>>
    /\ idx = 1
    /\ calls = <<>>
    /\ failed_call = None
    /\ looked_up = FALSE
    /\ pre = Snapshot
    /\ history = <<>>
    /\ inv = 1

DocTags == [k \in TagKeys |-> IF k = "Name" THEN "a" ELSE Absent]
DocRoute == [DestinationCidrBlock |-> "10.3.0.0/16", TransitGatewayAttachmentId |-> "tgw-attach-A"]

\* Tag sets used where the lookup is what varies.
LookupTagDicts ==
    {EmptyDict, DocTags,
     [k \in TagKeys |-> IF k = "Name" THEN "a" ELSE "b"],
     [k \in TagKeys |-> IF k = "Name" THEN "b" ELSE Absent]}

\* The lookup varies: any number of tables under either gateway, with or
\* without the looked-up tags, looked up by tag or by id (known or unknown).
InitLookupCases ==
    \E n \in 0..MaxTables :
    \E gw \in [1..n -> Gateways],
       tg \in [1..n -> {ansible_dict_to_boto3_tag_list(d) : d \in LookupTagDicts \ {EmptyDict}}
                       \cup {{}}] :
    \E state \in {"present", "absent"}, lookup \in {"tag", "id"},
       rtid \in 1..MaxTables, purge \in BOOLEAN, check \in BOOLEAN,
       tags \in {None} \cup {Some(d) : d \in LookupTagDicts} :
        /\ lookup = "tag" => rtid = 1
        /\ InitRemote(n, gw, tg, {"tgw-attach-A"}, {}, {DocRoute})
        /\ params = Params(state, lookup, rtid, tags, purge, None, None, check)

\* Tags vary: any current tag set of the table, any desired tag set.
InitTagCases ==
    \E cur \in TagLists, purge \in BOOLEAN, check \in BOOLEAN,
       tags \in {None} \cup {Some(d) : d \in TagDicts} :
        /\ InitRemote(1, [t \in {1} |-> "tgw-1"], [t \in {1} |-> cur],
                      {"tgw-attach-A"}, {}, {DocRoute})
        /\ params = Params("present", "id", 1, tags, purge, None, None, check)

\* Associations vary: any current associations (one of them possibly the
\* main one), any desired list.
InitAssociationCases ==
    \E as \in SUBSET Attachments, check \in BOOLEAN,
       assocs \in {None} \cup {Some(l) : l \in SeqsUpTo(Attachments, MaxAssociations)} :
    \E mn \in {m \in SUBSET as : Cardinality(m) <= 1} :
        /\ InitRemote(1, [t \in {1} |-> "tgw-1"],
                      [t \in {1} |-> ansible_dict_to_boto3_tag_list(DocTags)], as, mn, {})
        /\ params = Params("present", "id", 1, None, FALSE, assocs, None, check)

\* Routes vary: any active routes, any desired list.
InitRouteCases ==
    \E rt \in RouteSets, check \in BOOLEAN,
       routes \in {None} \cup {Some(l) : l \in SeqsUpTo(RouteSpecs, MaxRoutes)} :
        /\ \A r \in rt : r.TransitGatewayAttachmentId = "tgw-attach-A"
        /\ InitRemote(1, [t \in {1} |-> "tgw-1"],
                      [t \in {1} |-> ansible_dict_to_boto3_tag_list(DocTags)], {}, {}, rt)
        /\ params = Params("present", "id", 1, None, FALSE, None, routes, check)

\* Everything given at once, as in the module's EXAMPLES.
InitFullCases ==
    \E n \in 0..1, as \in {{}, {"tgw-attach-B"}}, rt \in {{}, {DocRoute}},
       state \in {"present", "absent"}, lookup \in {"tag", "id"}, check \in BOOLEAN :
        /\ InitRemote(n, [t \in 1..n |-> "tgw-1"],
                      [t \in 1..n |-> ansible_dict_to_boto3_tag_list(DocTags)], as, {}, rt)
        /\ params = Params(state, lookup, 1, Some(DocTags), FALSE,
                           Some(<<"tgw-attach-A", "tgw-attach-B">>),
                           Some(<<[dest_cidr |-> "10.1.0.0/16", tgw_attachment_id |-> "tgw-attach-A"],
                                  [dest_cidr |-> "10.2.0.0/16", tgw_attachment_id |-> "tgw-attach-B"]>>),
                           check)

Init ==
    /\ InitLookupCases \/ InitTagCases \/ InitAssociationCases \/ InitRouteCases \/ InitFullCases
    /\ InitInvocation

\* ------------------------------------------------- the SDK's mutating calls
Call(op, table, arg) == [op |-> op, table |-> table, arg |-> arg]

\* connection.delete_tags(Resources=[id], Tags=[{'Key': k} ...])
delete_tags(tl, keys) == {t \in tl : t.Key \notin keys}
\* connection.create_tags(Resources=[id], Tags=[...]): sets or overwrites
create_tags(tl, new) == {t \in tl : \A u \in new : u.Key # t.Key} \cup new
\* connection.create_transit_gateway_route
create_route(rs, cidr, att) ==
    {r \in rs : r.DestinationCidrBlock # cidr}
        \cup {[DestinationCidrBlock |-> cidr, TransitGatewayAttachmentId |-> att]}
\* connection.delete_transit_gateway_route
delete_route(rs, cidr) == {r \in rs : r.DestinationCidrBlock # cidr}

\* ------------------------------------------------------- ending a run
\* module.fail_json / fail_json_aws: report the failure and exit
fail_json_GoesOn(msg) ==
    /\ outcome' = outcome
    /\ result' = [changed |-> FALSE, route_table |-> None, msg |-> msg]

fail_json(msg) ==
    /\ outcome' = "failed"
    /\ result' = [changed |-> FALSE, route_table |-> None, msg |-> msg]

\* module.exit_json(changed=..., route_table=...)
exit_json(chg, rt) ==
    /\ outcome' = "done"
    /\ result' = [changed |-> chg, route_table |-> rt, msg |-> ""]

\* an SDK call raising ClientError / BotoCoreError, caught and reported
Raised(call, msg) ==
    /\ failed_call' = Some(call)
    /\ fail_json(msg)

\* an exception nothing catches: the module dies with a traceback
Crashed(msg) ==
    /\ outcome' = "crashed"
    /\ result' = [changed |-> FALSE, route_table |-> None, msg |-> msg]

Running(at) == outcome = "running" /\ pc = at

\* module.check_mode
check_mode_Ignored == FALSE

check_mode == params.check_mode

\* --------------------------------------------------------------- lookup
get_route_table_by_id_Unchecked(route_table_id) == route_table_id

\* get_route_table_by_id, the describe call having answered: the table, or
\* None when the id is unknown (InvalidRouteTableID.NotFound)
get_route_table_by_id(route_table_id) ==
    IF route_table_id \in tables THEN route_table_id ELSE NoTable

\* The tables describe_transit_gateway_route_tables lists for the filter
\* transit-gateway-id = tgw_id.
TablesOf(tgw_id) == {t \in tables : tgwOf[t] = tgw_id}

Matching(tgw_id, tags) ==
    {t \in TablesOf(tgw_id) : tags_match(tags, boto3_tag_list_to_ansible_dict(rtags[t]))}

\* get_route_table_by_tags, every describe call having answered: the count of
\* matching tables and the last of them in the order the remote listed them.
get_route_table_by_tags(tgw_id, tags) ==
    LET m == Matching(tgw_id, tags)
    IN  {[count |-> Cardinality(m), route_table |-> t] :
            t \in IF m = {} THEN {NoTable} ELSE m}

\* What the lookup of lines 316-322 / 486-498 can end in.
LookupTags_NoTagsMatchAll == IF params.tags = None THEN Some(EmptyDict) ELSE params.tags

\* the tags the lookup by tag searches for; None: no lookup at all
LookupTags == params.tags

\* lookup at the head of ensure_route_table_present
PresentLookup ==
    /\ Running("lookup")
    /\ params.state = "present"
    /\ UNCHANGED <<remote, run, calls>>
    /\ UNCHANGED <<changed, fn_changed, cur_tags, tag_result, existing_attachments, route_list, idx>>
    /\ \/ /\ params.lookup = "tag" /\ LookupTags = None
          /\ route_table' = NoTable
          /\ pc' = "create"
          /\ UNCHANGED <<outcome, result, failed_call, looked_up>>
       \/ /\ params.lookup = "tag" /\ LookupTags # None
          /\ looked_up' = TRUE
          /\ \/ /\ Raised("describe_transit_gateway_route_tables", "Couldn't get route table")
                /\ UNCHANGED <<route_table, pc>>
             \/ /\ TablesOf(params.tgw_id) # {}
                /\ Raised("describe_tags", "Error finding route table with lookup 'tag'")
                /\ UNCHANGED <<route_table, pc>>
             \/ \E r \in get_route_table_by_tags(params.tgw_id, LookupTags[1]) :
                   IF r.count > 1
                   THEN /\ fail_json("Tags provided do not identify a unique route table")
                        /\ UNCHANGED <<route_table, pc, failed_call>>
                   ELSE /\ route_table' = r.route_table
                        /\ pc' = IF r.route_table = NoTable THEN "create" ELSE "tags"
                        /\ UNCHANGED <<outcome, result, failed_call>>
       \/ /\ params.lookup = "id"
          /\ looked_up' = TRUE
          /\ \/ /\ Raised("describe_transit_gateway_route_tables", "Couldn't get route table")
                /\ UNCHANGED <<route_table, pc>>
             \/ /\ route_table' = get_route_table_by_id(params.route_table_id)
                /\ pc' = IF route_table' = NoTable THEN "create" ELSE "tags"
                /\ UNCHANGED <<outcome, result, failed_call>>

\* lines 501-511: no table was found, create one
CreateRouteTable ==
    /\ Running("create")
    /\ UNCHANGED <<run, looked_up>>
    /\ UNCHANGED <<fn_changed, cur_tags, tag_result, existing_attachments, route_list, idx>>
    /\ changed' = TRUE
    /\ IF check_mode
       THEN /\ exit_json(TRUE, Some([id |-> "rtb-xxxxxxxx", route_table_id |-> "rtb-xxxxxxxx",
                                     tgw_id |-> params.tgw_id]))
            /\ pc' = "exit"
            /\ UNCHANGED <<remote, route_table, calls, failed_call>>
       ELSE \/ /\ Raised("create_transit_gateway_route_table", "Error creating route table")
               /\ UNCHANGED <<remote, route_table, calls, pc>>
            \/ /\ tables' = tables \cup {nextId}
               /\ tgwOf' = [tgwOf EXCEPT ![nextId] = params.tgw_id]
               /\ nextId' = nextId + 1
               /\ route_table' = nextId
               /\ calls' = Append(calls, Call("create_transit_gateway_route_table",
                                              nextId, params.tgw_id))
               /\ pc' = "tags"
               /\ UNCHANGED <<rtags, rassoc, rmain, rroutes, outcome, result, failed_call>>

\* lines 518, 524, 529: changed = changed or result['changed']
or_changed_Overwrites(so_far, result_changed) == result_changed

or_changed(so_far, result_changed) == so_far \/ result_changed

\* ------------------------------------------------------------ ensure_tags
\* to_add, to_delete of line 233
to_add == compare_aws_tags(cur_tags, params.tags[1], params.purge_tags)[1]
to_delete == compare_aws_tags(cur_tags, params.tags[1], params.purge_tags)[2]

\* Tags=[{'Key': k} for k in to_delete] of line 244
DeleteTagsRequest_AllCurrent(keys) == Keys(cur_tags)

DeleteTagsRequest(keys) == keys

\* lines 514-518 and 227-240: skip when no tags are given; else read the
\* current tags and return at once when nothing differs or in check mode
EnsureTags ==
    /\ Running("tags")
    /\ UNCHANGED <<remote, run, calls, looked_up, route_table, fn_changed,
                   existing_attachments, route_list, idx>>
    /\ IF params.tags = None
       THEN /\ pc' = "assoc"
            /\ UNCHANGED <<changed, cur_tags, tag_result, outcome, result, failed_call>>
       ELSE \/ /\ Raised("describe_tags", "Unable to list tags for VPC")
               /\ UNCHANGED <<changed, cur_tags, tag_result, pc>>
            \/ LET cur == boto3_tag_list_to_ansible_dict(rtags[route_table])
                   cmp == compare_aws_tags(cur, params.tags[1], params.purge_tags)
               IN  /\ UNCHANGED <<outcome, result, failed_call>>
                   /\ IF Keys(cmp[1]) = {} /\ cmp[2] = {}
                      THEN /\ cur_tags' = cur
                           /\ tag_result' = [changed |-> FALSE, tags |-> Some(cur)]
                           /\ changed' = or_changed(changed, FALSE)
                           /\ pc' = "assoc"
                      ELSE IF check_mode
                      THEN /\ cur_tags' = IF params.purge_tags THEN cur
                                          ELSE DictUpdate(cur, params.tags[1])
                           \* tags = cur_tags.update(tags) is None
                           /\ tag_result' = [changed |-> TRUE,
                                             tags |-> IF params.purge_tags
                                                      THEN params.tags ELSE None]
                           /\ changed' = or_changed(changed, TRUE)
                           /\ pc' = "assoc"
                      ELSE /\ cur_tags' = cur
                           /\ pc' = "tags_delete"
                           /\ UNCHANGED <<changed, tag_result>>

\* lines 242-246
EnsureTagsDelete ==
    /\ Running("tags_delete")
    /\ UNCHANGED <<run, looked_up, locals>>
    /\ UNCHANGED <<tables, tgwOf, rassoc, rmain, rroutes, nextId>>
    /\ IF to_delete = {}
       THEN /\ pc' = "tags_create"
            /\ UNCHANGED <<rtags, calls, outcome, result, failed_call>>
       ELSE \/ /\ Raised("delete_tags", "Couldn't delete tags")
               /\ UNCHANGED <<rtags, calls, pc>>
            \/ /\ rtags' = [rtags EXCEPT ![route_table] =
                                delete_tags(@, DeleteTagsRequest(to_delete))]
               /\ calls' = Append(calls, Call("delete_tags", route_table,
                                              DeleteTagsRequest(to_delete)))
               /\ pc' = "tags_create"
               /\ UNCHANGED <<outcome, result, failed_call>>

\* lines 247-251
EnsureTagsCreate ==
    /\ Running("tags_create")
    /\ UNCHANGED <<run, looked_up, locals>>
    /\ UNCHANGED <<tables, tgwOf, rassoc, rmain, rroutes, nextId>>
    /\ IF Keys(to_add) = {}
       THEN /\ pc' = "tags_refetch"
            /\ UNCHANGED <<rtags, calls, outcome, result, failed_call>>
       ELSE \/ /\ Raised("create_tags", "Couldn't create tags")
               /\ UNCHANGED <<rtags, calls, pc>>
            \/ /\ rtags' = [rtags EXCEPT ![route_table] =
                                create_tags(@, ansible_dict_to_boto3_tag_list(to_add))]
               /\ calls' = Append(calls, Call("create_tags", route_table,
                                              ansible_dict_to_boto3_tag_list(to_add)))
               /\ pc' = "tags_refetch"
               /\ UNCHANGED <<outcome, result, failed_call>>

\* lines 253-257 and 517-518
EnsureTagsRefetch ==
    /\ Running("tags_refetch")
    /\ UNCHANGED <<remote, run, calls, looked_up, route_table, fn_changed, cur_tags,
                   existing_attachments, route_list, idx>>
    /\ \/ /\ Raised("describe_tags", "Unable to list tags for VPC")
          /\ UNCHANGED <<changed, tag_result, pc>>
       \/ /\ tag_result' = [changed |-> TRUE,
                            tags |-> Some(boto3_tag_list_to_ansible_dict(rtags[route_table]))]
          /\ changed' = or_changed(changed, TRUE)
          /\ pc' = "assoc"
          /\ UNCHANGED <<outcome, result, failed_call>>

\* ---------------------------------------------------- ensure_associations
\* line 400: an existing association the desired list does not name
ErrantAssociation_SparesMain(assoc, associations) ==
    assoc \notin Range(associations) /\ assoc \notin rmain[route_table]

ErrantAssociation(assoc, associations) == assoc \notin Range(associations)

\* lines 521-523 and 370-383: skip when no associations are given; else list
\* the table's associations, in whatever order the remote gives them
EnsureAssociations ==
    /\ Running("assoc")
    /\ UNCHANGED <<remote, run, calls, looked_up, route_table, changed, cur_tags,
                   tag_result, route_list>>
    /\ IF params.associations = None
       THEN /\ pc' = "routes"
            /\ UNCHANGED <<fn_changed, existing_attachments, idx, outcome, result, failed_call>>
       ELSE \/ /\ Raised("get_transit_gateway_route_table_associations",
                         "No associations found")
               /\ UNCHANGED <<fn_changed, existing_attachments, idx, pc>>
            \/ \E order \in Perms(rassoc[route_table]) :
                  /\ existing_attachments' = order
                  /\ fn_changed' = FALSE
                  /\ idx' = 1
                  /\ pc' = "assoc_add"
                  /\ UNCHANGED <<outcome, result, failed_call>>

\* lines 386-396: one turn of the loop over the desired associations
EnsureAssociationsAdd ==
    /\ Running("assoc_add")
    /\ UNCHANGED <<run, looked_up, route_table, changed, cur_tags, tag_result,
                   existing_attachments, route_list>>
    /\ UNCHANGED <<tables, tgwOf, rtags, rmain, rroutes, nextId>>
    /\ LET associations == params.associations[1]
       IN  IF idx > Len(associations)
           THEN /\ pc' = "assoc_del"
                /\ idx' = 1
                /\ UNCHANGED <<rassoc, calls, fn_changed, outcome, result, failed_call>>
           ELSE LET assoc == associations[idx]
                IN  IF assoc \in Range(existing_attachments)
                    THEN /\ idx' = idx + 1
                         /\ UNCHANGED <<rassoc, calls, fn_changed, pc, outcome, result,
                                        failed_call>>
                    ELSE /\ fn_changed' = TRUE
                         /\ IF check_mode
                            THEN /\ idx' = idx + 1
                                 /\ UNCHANGED <<rassoc, calls, pc, outcome, result, failed_call>>
                            ELSE \/ /\ Raised("associate_transit_gateway_route_table",
                                              "Failed to create asociation")
                                    /\ UNCHANGED <<rassoc, calls, pc, idx>>
                                 \/ /\ rassoc' = [rassoc EXCEPT ![route_table] = @ \cup {assoc}]
                                    /\ calls' = Append(calls,
                                           Call("associate_transit_gateway_route_table",
                                                route_table, assoc))
                                    /\ idx' = idx + 1
                                    /\ UNCHANGED <<pc, outcome, result, failed_call>>

\* lines 399-413 and 524: one turn of the loop over the existing associations,
\* and the return once the loop is over
EnsureAssociationsDelete ==
    /\ Running("assoc_del")
    /\ UNCHANGED <<run, looked_up, route_table, cur_tags, tag_result,
                   existing_attachments, route_list>>
    /\ UNCHANGED <<tables, tgwOf, rtags, rmain, rroutes, nextId>>
    /\ LET associations == params.associations[1]
       IN  IF idx > Len(existing_attachments)
           THEN /\ changed' = or_changed(changed, fn_changed)
                /\ pc' = "routes"
                /\ UNCHANGED <<rassoc, calls, fn_changed, idx, outcome, result, failed_call>>
           ELSE LET assoc == existing_attachments[idx]
                IN  IF ~ErrantAssociation(assoc, associations)
                    THEN /\ idx' = idx + 1
                         /\ UNCHANGED <<rassoc, calls, fn_changed, changed, pc, outcome,
                                        result, failed_call>>
                    ELSE /\ fn_changed' = TRUE
                         /\ UNCHANGED changed
                         /\ IF check_mode
                            THEN /\ idx' = idx + 1
                                 /\ UNCHANGED <<rassoc, calls, pc, outcome, result, failed_call>>
                            ELSE \/ /\ Raised("disassociate_transit_gateway_route_table",
                                              "Failed to delete asociation")
                                    /\ UNCHANGED <<rassoc, calls, pc, idx>>
                                 \/ /\ rassoc' = [rassoc EXCEPT ![route_table] = @ \ {assoc}]
                                    /\ calls' = Append(calls,
                                           Call("disassociate_transit_gateway_route_table",
                                                route_table, assoc))
                                    /\ idx' = idx + 1
                                    /\ UNCHANGED <<pc, outcome, result, failed_call>>

\* ------------------------------------------------------------ ensure_routes
\* existing_cidrs.keys(), in the order the remote listed the routes
existing_cidrs == [i \in 1..Len(route_list) |-> route_list[i].DestinationCidrBlock]

\* line 463: the variable `route` once the loop of lines 453-455 is over: the
\* last desired route, or, the desired list being empty, what the loop of
\* line 431 left in it, the last record of route_list
route_at_delete(routes) ==
    IF Len(routes) > 0 THEN routes[Len(routes)] ELSE route_list[Len(route_list)]

\* lines 526-528 and 416-434: skip when no routes are given; else search the
\* table's active routes, in whatever order the remote gives them
EnsureRoutes ==
    /\ Running("routes")
    /\ UNCHANGED <<remote, run, calls, looked_up, route_table, changed, cur_tags,
                   tag_result, existing_attachments>>
    /\ IF params.routes = None
       THEN /\ pc' = "final"
            /\ UNCHANGED <<fn_changed, route_list, idx, outcome, result, failed_call>>
       ELSE \/ /\ Raised("search_transit_gateway_routes", "No routes found")
               /\ UNCHANGED <<fn_changed, route_list, idx, pc>>
            \/ \E order \in Perms(rroutes[route_table]) :
                  /\ route_list' = order
                  /\ fn_changed' = FALSE
                  /\ idx' = 1
                  /\ pc' = "routes_add"
                  /\ UNCHANGED <<outcome, result, failed_call>>

\* lines 437-448: one turn of the loop over the desired routes
EnsureRoutesAdd ==
    /\ Running("routes_add")
    /\ UNCHANGED <<run, looked_up, route_table, changed, cur_tags, tag_result,
                   existing_attachments, route_list>>
    /\ UNCHANGED <<tables, tgwOf, rtags, rassoc, rmain, nextId>>
    /\ LET routes == params.routes[1]
       IN  IF idx > Len(routes)
           THEN /\ pc' = "routes_del"
                /\ idx' = 1
                /\ UNCHANGED <<rroutes, calls, fn_changed, outcome, result, failed_call>>
           ELSE LET route == routes[idx]
                IN  IF route.dest_cidr \in Range(existing_cidrs)
                    THEN /\ idx' = idx + 1
                         /\ UNCHANGED <<rroutes, calls, fn_changed, pc, outcome, result,
                                        failed_call>>
                    ELSE /\ fn_changed' = TRUE
                         /\ IF check_mode
                            THEN /\ idx' = idx + 1
                                 /\ UNCHANGED <<rroutes, calls, pc, outcome, result, failed_call>>
                            ELSE \/ /\ Raised("create_transit_gateway_route",
                                              "Failed to create route")
                                    /\ UNCHANGED <<rroutes, calls, pc, idx>>
                                 \/ /\ rroutes' = [rroutes EXCEPT ![route_table] =
                                           create_route(@, route.dest_cidr,
                                                        route.tgw_attachment_id)]
                                    /\ calls' = Append(calls,
                                           Call("create_transit_gateway_route",
                                                route_table, route.dest_cidr))
                                    /\ idx' = idx + 1
                                    /\ UNCHANGED <<pc, outcome, result, failed_call>>

\* lines 451-469 and 529: one turn of the loop over the existing CIDRs, and
\* the return once the loop is over
EnsureRoutesDelete ==
    /\ Running("routes_del")
    /\ UNCHANGED <<run, looked_up, route_table, cur_tags, tag_result,
                   existing_attachments, route_list>>
    /\ UNCHANGED <<tables, tgwOf, rtags, rassoc, rmain, nextId>>
    /\ LET routes == params.routes[1]
       IN  IF idx > Len(existing_cidrs)
           THEN /\ changed' = or_changed(changed, fn_changed)
                /\ pc' = "final"
                /\ UNCHANGED <<rroutes, calls, fn_changed, idx, outcome, result, failed_call>>
           ELSE LET cidr == existing_cidrs[idx]
                    found == \E i \in 1..Len(routes) : routes[i].dest_cidr = cidr
                    route == route_at_delete(routes)
                IN  IF found
                    THEN /\ idx' = idx + 1
                         /\ UNCHANGED <<rroutes, calls, fn_changed, changed, pc, outcome,
                                        result, failed_call>>
                    ELSE /\ fn_changed' = TRUE
                         /\ UNCHANGED changed
                         /\ IF check_mode
                            THEN /\ idx' = idx + 1
                                 /\ UNCHANGED <<rroutes, calls, pc, outcome, result, failed_call>>
                            ELSE IF "dest_cidr" \notin DOMAIN route
                            THEN /\ Crashed("KeyError: 'dest_cidr'")
                                 /\ UNCHANGED <<rroutes, calls, pc, idx, failed_call>>
                            ELSE \/ /\ Raised("delete_transit_gateway_route",
                                              "Failed to delete route")
                                    /\ UNCHANGED <<rroutes, calls, pc, idx>>
                                 \/ /\ rroutes' = [rroutes EXCEPT ![route_table] =
                                           delete_route(@, route.dest_cidr)]
                                    /\ calls' = Append(calls,
                                           Call("delete_transit_gateway_route",
                                                route_table, route.dest_cidr))
                                    /\ idx' = idx + 1
                                    /\ UNCHANGED <<pc, outcome, result, failed_call>>

\* ------------------------------------------------------------ final refresh
\* one element of describe_transit_gateway_route_tables' answer
DescribeRecord(t) == [TransitGatewayRouteTableId |-> t, TransitGatewayId |-> tgwOf[t]]

\* camel_dict_to_snake_dict(result, ignore_list=['Tags'])
camel_dict_to_snake_dict(r) ==
    [transit_gateway_route_table_id |-> r.TransitGatewayRouteTableId,
     transit_gateway_id |-> r.TransitGatewayId,
     tags |-> r.Tags]

\* get_route_table_info, every call having answered
get_route_table_info(t) ==
    LET described == DescribeRecord(get_route_table_by_id(t))
        withTags == [TransitGatewayRouteTableId |-> described.TransitGatewayRouteTableId,
                     TransitGatewayId |-> described.TransitGatewayId,
                     Tags |-> boto3_tag_list_to_ansible_dict(rtags[t])]
        snake == camel_dict_to_snake_dict(withTags)
    IN  [transit_gateway_route_table_id |-> snake.transit_gateway_route_table_id,
         transit_gateway_id |-> snake.transit_gateway_id,
         tags |-> snake.tags,
         id |-> snake.transit_gateway_route_table_id]

\* lines 531-534 and 343-352
FinalRefresh ==
    /\ Running("final")
    /\ UNCHANGED <<remote, run, calls, looked_up, locals>>
    /\ \/ /\ Raised("describe_transit_gateway_route_tables", "Couldn't get route table")
          /\ UNCHANGED pc
       \/ /\ Raised("describe_tags", "Couldn't get tags for route table")
          /\ UNCHANGED pc
       \/ /\ get_route_table_by_id(route_table) = NoTable
          /\ Crashed("TypeError: 'NoneType' object does not support item assignment")
          /\ UNCHANGED <<pc, failed_call>>
       \/ /\ get_route_table_by_id(route_table) # NoTable
          /\ exit_json(changed, Some(get_route_table_info(route_table)))
          /\ pc' = "exit"
          /\ UNCHANGED failed_call

\* ------------------------------------------------- ensure_route_table_absent
\* lines 316-325
AbsentLookup ==
    /\ Running("lookup")
    /\ params.state = "absent"
    /\ UNCHANGED <<remote, run, calls>>
    /\ UNCHANGED <<changed, fn_changed, cur_tags, tag_result, existing_attachments, route_list, idx>>
    /\ \/ /\ params.lookup = "tag" /\ params.tags = None
          /\ route_table' = NoTable
          /\ exit_json(FALSE, None)
          /\ pc' = "exit"
          /\ UNCHANGED <<failed_call, looked_up>>
       \/ /\ params.lookup = "tag" /\ params.tags # None
          /\ looked_up' = TRUE
          /\ \/ /\ Raised("describe_transit_gateway_route_tables", "Couldn't get route table")
                /\ UNCHANGED <<route_table, pc>>
             \/ /\ TablesOf(params.tgw_id) # {}
                \* line 293 is in no try block here
                /\ failed_call' = Some("describe_tags")
                /\ Crashed("ClientError")
                /\ UNCHANGED <<route_table, pc>>
             \/ \E r \in get_route_table_by_tags(params.tgw_id, params.tags[1]) :
                   IF r.count > 1
                   THEN /\ fail_json("Tags provided do not identify a unique route table")
                        /\ UNCHANGED <<route_table, pc, failed_call>>
                   ELSE /\ route_table' = r.route_table
                        /\ UNCHANGED failed_call
                        /\ IF r.route_table = NoTable
                           THEN exit_json(FALSE, None) /\ pc' = "exit"
                           ELSE pc' = "absent_delete" /\ UNCHANGED <<outcome, result>>
       \/ /\ params.lookup = "id"
          /\ looked_up' = TRUE
          /\ \/ /\ Raised("describe_transit_gateway_route_tables", "Couldn't get route table")
                /\ UNCHANGED <<route_table, pc>>
             \/ /\ route_table' = get_route_table_by_id(params.route_table_id)
                /\ UNCHANGED failed_call
                /\ IF route_table' = NoTable
                   THEN exit_json(FALSE, None) /\ pc' = "exit"
                   ELSE pc' = "absent_delete" /\ UNCHANGED <<outcome, result>>

\* lines 329-340
AbsentDelete ==
    /\ Running("absent_delete")
    /\ UNCHANGED <<run, looked_up, locals>>
    /\ IF check_mode
       THEN /\ exit_json(TRUE, None)
            /\ pc' = "exit"
            /\ UNCHANGED <<remote, calls, failed_call>>
       ELSE \/ /\ Raised("delete_transit_gateway_route_table", "Error deleting route table")
               /\ UNCHANGED <<remote, calls, pc>>
            \/ /\ tables' = tables \ {route_table}
               /\ tgwOf' = [tgwOf EXCEPT ![route_table] = "none"]
               /\ rtags' = [rtags EXCEPT ![route_table] = {}]
               /\ rassoc' = [rassoc EXCEPT ![route_table] = {}]
               /\ rmain' = [rmain EXCEPT ![route_table] = {}]
               /\ rroutes' = [rroutes EXCEPT ![route_table] = {}]
               /\ UNCHANGED nextId
               /\ calls' = Append(calls, Call("delete_transit_gateway_route_table",
                                              route_table, route_table))
               /\ exit_json(TRUE, None)
               /\ pc' = "exit"
               /\ UNCHANGED failed_call

\* ------------------------------------------------------ the next invocation
\* The same task run again: main() with the same parameters.
Reinvoke ==
    /\ outcome = "done"
    /\ inv < MaxInvocations
    /\ inv' = inv + 1
    /\ history' = Append(history, [changed |-> result.changed, calls |-> calls])
    /\ pre' = Snapshot
    /\ pc' = "lookup"
    /\ outcome' = "running"
    /\ result' = NoResult
    /\ route_table' = NoTable
    /\ changed' = FALSE
    /\ fn_changed' = FALSE
    /\ cur_tags' = EmptyDict
    /\ tag_result' = [changed |-> FALSE, tags |-> None]
    /\ existing_attachments' = <<>>
    /\ route_list' = <<>>
    /\ idx' = 1
    /\ calls' = <<>>
    /\ failed_call' = None
    /\ looked_up' = FALSE
    /\ UNCHANGED <<remote, params>>

Next ==
    \/ PresentLookup
    \/ CreateRouteTable
    \/ EnsureTags
    \/ EnsureTagsDelete
    \/ EnsureTagsCreate
    \/ EnsureTagsRefetch
    \/ EnsureAssociations
    \/ EnsureAssociationsAdd
    \/ EnsureAssociationsDelete
    \/ EnsureRoutes
    \/ EnsureRoutesAdd
    \/ EnsureRoutesDelete
    \/ FinalRefresh
    \/ AbsentLookup
    \/ AbsentDelete
    \/ Reinvoke

Spec == Init /\ [][Next]_vars

TypeOK ==
    /\ tables \subseteq AllIds
    /\ pc \in {"lookup", "create", "tags", "tags_delete", "tags_create", "tags_refetch",
               "assoc", "assoc_add", "assoc_del", "routes", "routes_add", "routes_del",
               "final", "absent_delete", "exit"}
    /\ outcome \in {"running", "done", "failed", "crashed"}
    /\ route_table \in AllIds \cup {NoTable}
    /\ \A t \in AllIds : rtags[t] \in TagLists /\ rroutes[t] \in RouteSets
    /\ inv \in 1..MaxInvocations

\* ================================================================ properties
IsPresent == params.state = "present"
IsAbsent == params.state = "absent"
Ops == {calls[i].op : i \in 1..Len(calls)}
ActiveCidrs(t) == {r.DestinationCidrBlock : r \in rroutes[t]}
DesiredCidrs == {params.routes[1][i].dest_cidr : i \in 1..Len(params.routes[1])}
\* ensure_routes / ensure_associations / ensure_tags has returned, in a real run
RoutesReconciled == pc = "final" /\ params.routes # None /\ ~params.check_mode
AssociationsReconciled == pc = "routes" /\ params.associations # None /\ ~params.check_mode
TagsReconciled == pc = "assoc" /\ params.tags # None /\ ~params.check_mode
\* the tags the table had when the invocation began (none if it did not exist)
TagsBefore == boto3_tag_list_to_ansible_dict(pre.rtags[route_table])
TagsNow(t) == boto3_tag_list_to_ansible_dict(rtags[t])

\* C1: once a non-dry-run ensure_routes has returned, the active destination
\* CIDRs of the table are exactly the desired destination CIDRs.
RouteConvergence ==
    RoutesReconciled => ActiveCidrs(route_table) = DesiredCidrs

\* C2: a second state=present invocation with the same parameters, against a
\* remote nobody else writes to, reports changed=false.  Stated for the runs
\* in which both invocations look the table up by its id and find it.
Idempotence ==
    (/\ IsPresent /\ ~params.check_mode
     /\ params.lookup = "id" /\ params.route_table_id \in pre.tables
     /\ inv = 2 /\ outcome = "done")
        => result.changed = FALSE

\* C3 as stated: once a non-dry-run ensure_associations has returned, the
\* associations equal the desired ones when the main association is left out
\* of both, and the main association is still there.
AssociationConvergenceSparingMain ==
    AssociationsReconciled =>
        /\ rassoc[route_table] \ rmain[route_table]
              = Range(params.associations[1]) \ rmain[route_table]
        /\ rmain[route_table] \subseteq rassoc[route_table]

\* C3 amended: once a non-dry-run ensure_associations has returned, the
\* table's associations are exactly the desired ones; an association flagged
\* main that the desired list does not name has been disassociated like any
\* other.
AssociationConvergence ==
    AssociationsReconciled =>
        /\ rassoc[route_table] = Range(params.associations[1])
        /\ \A i \in 1..Len(calls) :
              calls[i].op = "disassociate_transit_gateway_route_table"
                 => calls[i].arg \notin Range(params.associations[1])

\* a main association, not desired, was disassociated while another was added
AssociationConvergenceWitness ==
    /\ AssociationsReconciled
    /\ rmain[route_table] # {}
    /\ ~(rmain[route_table] \subseteq rassoc[route_table])
    /\ "associate_transit_gateway_route_table" \in Ops

\* C4: once a non-dry-run ensure_tags has returned, the table's tags are the
\* desired tags D when purge_tags is set, and the tags C it had before with D
\* written over them when it is not; ensure_tags returned the remote's tags.
TagConvergence ==
    TagsReconciled =>
        /\ TagsNow(route_table) =
              IF params.purge_tags THEN params.tags[1]
              ELSE DictUpdate(TagsBefore, params.tags[1])
        /\ tag_result.tags = Some(TagsNow(route_table))

\* purge_tags: a key was deleted, another written, a third left as it was
TagConvergenceWitness ==
    /\ TagsReconciled
    /\ params.purge_tags
    /\ "delete_tags" \in Ops
    /\ "create_tags" \in Ops
    /\ tag_result.changed

\* C5: in check mode the remote is never written: no mutating call is issued
\* and the remote stays what it was when the invocation began.
DryRunNeverMutates ==
    params.check_mode =>
        /\ calls = <<>>
        /\ Snapshot = pre
        /\ \A i \in 1..Len(history) : history[i].calls = <<>>

\* a dry run of state=present that found associations or routes to change
DryRunNeverMutatesWitness ==
    /\ params.check_mode
    /\ IsPresent
    /\ outcome = "done"
    /\ result.changed
    /\ route_table # NoTable
    /\ fn_changed

\* The tables under the looked-up gateway whose tag list, when the invocation
\* began, held every desired key/value pair.
Candidates ==
    {t \in pre.tables :
        /\ pre.tgwOf[t] = params.tgw_id
        /\ ansible_dict_to_boto3_tag_list(params.tags[1]) \subseteq pre.rtags[t]}
ByTags == params.lookup = "tag" /\ params.tags # None
LookupOver == pc # "lookup" \/ outcome # "running"

\* C6: a lookup by tags that two or more tables of the gateway match ends the
\* invocation in a failure at the lookup and hands no table on; with exactly
\* one match that table is the one worked on; with none, no table is found.
AmbiguousLookupFails ==
    (ByTags /\ LookupOver) =>
        /\ Cardinality(Candidates) >= 2 =>
              pc = "lookup" /\ outcome \in {"failed", "crashed"} /\ route_table = NoTable
        /\ (Cardinality(Candidates) = 1 /\ pc # "lookup") => route_table \in Candidates
        /\ (Candidates = {} /\ pc # "lookup") => route_table \notin pre.tables

\* two tables matched and the module reported that the tags are not unique
AmbiguousLookupFailsWitness ==
    /\ ByTags
    /\ Cardinality(Candidates) >= 2
    /\ outcome = "failed"
    /\ failed_call = None
    /\ result.msg = "Tags provided do not identify a unique route table"

\* the lookup of this invocation can find no table
ResolvesToNone ==
    \/ params.lookup = "id" /\ params.route_table_id \notin pre.tables
    \/ params.lookup = "tag" /\ params.tags = None
    \/ ByTags /\ Candidates = {}

\* C7: state=absent whose lookup finds no table returns changed=false, issues
\* no mutating call and leaves the remote as it was.
AbsentOnAbsent ==
    (IsAbsent /\ ResolvesToNone /\ outcome = "done") =>
        /\ result.changed = FALSE
        /\ calls = <<>>
        /\ Snapshot = pre

\* a real run of state=absent by tags that no existing table carries
AbsentOnAbsentWitness ==
    /\ IsAbsent
    /\ ~params.check_mode
    /\ ByTags /\ Candidates = {} /\ pre.tables # {}
    /\ outcome = "done"

\* C8: the route_table a completed real state=present run returns is fetched
\* after the reconciliation and holds the table's current tags, associations
\* and routes.
FinalSnapshotComplete ==
    (IsPresent /\ ~params.check_mode /\ outcome = "done") =>
        LET shown == result.route_table[1]
        IN  /\ shown.tags = TagsNow(route_table)
            /\ "associations" \in DOMAIN shown
            /\ "routes" \in DOMAIN shown
            /\ shown.associations = rassoc[route_table]
            /\ shown.routes = rroutes[route_table]

\* C9 as stated: state=present with lookup=tag and no tags looks nothing up
\* and creates a new table under tgw_id, reporting changed=true.
NoTagsAlwaysCreates ==
    (IsPresent /\ params.lookup = "tag" /\ params.tags = None /\ outcome = "done") =>
        /\ ~looked_up
        /\ result.changed
        /\ route_table \in tables \ pre.tables
        /\ tgwOf[route_table] = params.tgw_id

\* C9 amended: state=present with lookup=tag and no tags looks nothing up and
\* reports changed=true whatever tables exist; a real run has created a new
\* table under tgw_id, a dry run has created nothing.
NoTagsCreatesUnlessDryRun ==
    (IsPresent /\ params.lookup = "tag" /\ params.tags = None /\ outcome = "done") =>
        /\ ~looked_up
        /\ result.changed
        /\ IF params.check_mode
           THEN tables = pre.tables /\ calls = <<>>
           ELSE /\ route_table \in tables \ pre.tables
                /\ tgwOf[route_table] = params.tgw_id
                /\ calls[1] = Call("create_transit_gateway_route_table",
                                   route_table, params.tgw_id)

\* a real run that created a table although the gateway already had tables
NoTagsCreatesWitness ==
    /\ IsPresent /\ params.lookup = "tag" /\ params.tags = None
    /\ ~params.check_mode
    /\ outcome = "done"
    /\ \E t \in pre.tables : pre.tgwOf[t] = params.tgw_id
    /\ route_table \in tables \ pre.tables

\* the step of ensure_route_table_present a position or a call belongs to
StepOf(at) ==
    CASE at \in {"lookup", "create", "create_transit_gateway_route_table"} -> 1
      [] at \in {"tags", "tags_delete", "tags_create", "tags_refetch",
                 "delete_tags", "create_tags"} -> 2
      [] at \in {"assoc", "assoc_add", "assoc_del",
                 "associate_transit_gateway_route_table",
                 "disassociate_transit_gateway_route_table"} -> 3
      [] at \in {"routes", "routes_add", "routes_del",
                 "create_transit_gateway_route", "delete_transit_gateway_route"} -> 4
      [] OTHER -> 5

\* C10: state=present goes through lookup/create, tags, associations, routes
\* and the final refresh in that order; an SDK call that raises ends the
\* invocation as failed, no call is issued after it, and what was applied
\* before it stays applied.
FailFastNoRollback ==
    [][IsPresent =>
          /\ inv' = inv => StepOf(pc') >= StepOf(pc)
          /\ \A i, j \in 1..Len(calls') :
                i < j => StepOf(calls'[i].op) <= StepOf(calls'[j].op)
          /\ failed_call' # None =>
                /\ outcome' = "failed"
                /\ remote' = remote
                /\ calls' = calls]_vars

\* the creation of a route raised after tags and associations were applied
FailFastNoRollbackWitness ==
    /\ IsPresent
    /\ outcome = "failed"
    /\ failed_call = Some("create_transit_gateway_route")
    /\ "create_tags" \in Ops
    /\ "associate_transit_gateway_route_table" \in Ops
    /\ rtags[route_table] # pre.rtags[route_table]

\* the CIDRs the table's active routes had when the invocation began
ActiveCidrsBefore == {r.DestinationCidrBlock : r \in pre.rroutes[route_table]}
RouteDeletes == {i \in 1..Len(calls) : calls[i].op = "delete_transit_gateway_route"}

\* C11: every delete-route call of a real ensure_routes names a CIDR that was
\* active and is not desired, and once ensure_routes has returned each such
\* errant CIDR has been deleted by exactly one call.
DeletesOnlyErrantRoutes ==
    (IsPresent /\ params.routes # None /\ ~params.check_mode /\ route_table # NoTable) =>
        LET errant == ActiveCidrsBefore \ DesiredCidrs
        IN  /\ \A i \in RouteDeletes : calls[i].arg \in errant
            /\ RoutesReconciled =>
                  /\ {calls[i].arg : i \in RouteDeletes} = errant
                  /\ Cardinality(RouteDeletes) = Cardinality(errant)

\* the table the lookup of this invocation finds, when it finds one
FoundTable ==
    IF params.lookup = "id" THEN params.route_table_id
    ELSE CHOOSE t \in Candidates : TRUE

\* Whether the remote, as it was when the invocation began, differs from what
\* the parameters ask for.
NeedsChange ==
    IF ResolvesToNone THEN IsPresent
    ELSE IF IsAbsent THEN TRUE
    ELSE LET t == FoundTable
             C == boto3_tag_list_to_ansible_dict(pre.rtags[t])
         IN  \/ /\ params.tags # None
                /\ \/ \E k \in Keys(params.tags[1]) : params.tags[1][k] # C[k]
                   \/ params.purge_tags /\ ~(Keys(C) \subseteq Keys(params.tags[1]))
             \/ /\ params.associations # None
                /\ pre.rassoc[t] # Range(params.associations[1])
             \/ /\ params.routes # None
                /\ {r.DestinationCidrBlock : r \in pre.rroutes[t]} # DesiredCidrs

\* C12: a completed real run reports changed=true exactly when it issued a
\* mutating call; and a completed run, dry or real, reports changed=true
\* exactly when the remote it started from differs from the parameters, so
\* that the dry run and the real run of the same task report the same value.
ChangedFlagExact ==
    outcome = "done" =>
        /\ ~params.check_mode => (result.changed <=> calls # <<>>)
        /\ result.changed <=> NeedsChange

\* a real run on an existing table that issued several calls and says so
ChangedFlagExactWitness ==
    /\ outcome = "done"
    /\ ~params.check_mode
    /\ IsPresent
    /\ route_table \in pre.tables
    /\ Len(calls) >= 2
    /\ result.changed

====
